---------------------------- MODULE Spec2Model ----------------------------
(***************************************************************************)
(* The caching layer of the stock screener: the function-based cache       *)
(* service (src/src/lib/cache/cacheService.ts, lines 1-248) with its local *)
(* store, size-bounded eviction and the Redis tier it prefers on the       *)
(* server (src/src/lib/cache/redisCache.server.ts).                        *)
(*                                                                         *)
(* Every public call is one action: the caller awaits each call before it  *)
(* issues the next one.  The outcome of every Redis command (resolve or    *)
(* reject) is chosen by the environment, as are the client's 'error' and   *)
(* 'connect' events and the passing of time.                               *)
(***************************************************************************)
EXTENDS Integers, Sequences, FiniteSets, TLC

VARIABLES
    isServer,               \* cacheService.ts:23  typeof window === 'undefined'
    now,                    \* Date.now(), in ms
    memoryCache,            \* cacheService.ts:19  entries in property (insertion) order
    memoryCacheSize,        \* cacheService.ts:20
    redisClient,            \* redisCache.server.ts:15  "null" or "client"
    isRedisConnecting,      \* redisCache.server.ts:16
    redisConnectionFailed,  \* redisCache.server.ts:17
    liveClient,             \* a Redis object has been constructed (its handlers stay registered)
    redisStore,             \* the keyspace of the Redis server
    redisDown,              \* environment: every Redis command rejects
    sets,                   \* number of set calls issued so far
    recording,              \* whether the most recent call is kept in last
    last,                   \* the most recent call and what it returned, Idle once time has passed
    refCache,               \* the local store of the local-only configuration run in lockstep
    refSize,                \* its memoryCacheSize
    refRet,                 \* what its most recent call returned
    \* the snapshot-backed revision, class CacheService (cacheService.ts:249-552)
    s3,                     \* cacheService.ts:273  an S3 client is configured (s3 && S3_BUCKET)
    redis,                  \* cacheService.ts:264  the keyspace behind the ioredis client
    isInitialized,          \* cacheService.ts:288
    snapshotFiles,          \* the cache-snapshot-<timestamp>.json files of LOCAL_SNAPSHOT_DIR
    latestLink,             \* latest-snapshot.json: index of the file it links to, 0 when missing
    s3Latest,               \* the object cache-snapshots/latest-snapshot.json of the bucket
    pc,                     \* where the call in progress stands
    depth,                  \* set(key, value) calls of the restore loop waiting on initialize()
    pending,                \* the call in progress
    loadFailed,             \* reading the latest snapshot has failed in this process
    returned,               \* the most recent call of the class that has returned, or job run
    \* calls of the function-based service in progress side by side
    calls,                  \* per caller: the call it has made, its locals and where it stands
    started,                \* how many calls have been made
    ioredis                 \* the Redis object of line 42: its connection, retries and ping

snapVars == <<s3, redis, isInitialized, snapshotFiles, latestLink, s3Latest, pc, depth,
              pending, loadFailed, returned>>

vars == <<isServer, now, memoryCache, memoryCacheSize, redisClient, isRedisConnecting,
          redisConnectionFailed, liveClient, redisStore, redisDown, sets, recording,
          last, refCache, refSize, refRet, snapVars, calls, started, ioredis>>

---------------------------------------------------------------------------
(* Bounds of the exploration *)

Keys == {"k1", "k2"}

\* JSON-serializable payloads: "v1" (10 MB) and "v3" (20 MB) fit under the ceiling together,
\* "v2" (40 MB) alone exceeds it
Values == {"v1", "v2", "v3"}

\* ttl arguments, in seconds (ttl <= 0 means no expiry)
TTLs == {0, 1}

StartTime == 1000

TickMs == 1000

MaxTicks == 2

MaxSets == 3

---------------------------------------------------------------------------
(* Program constants *)

MAX_CACHE_SIZE == 30 * 1024 * 1024

\* the value get returns for a miss
Null == "null"

\* the value of a call that returns nothing
Void == "void"

---------------------------------------------------------------------------
(* JavaScript numbers as far as expiry needs them *)

Num(n) == [kind |-> "num", ms |-> n]

Infinity == [kind |-> "inf", ms |-> 0]

JsonNull == [kind |-> "null", ms |-> 0]

\* expiry = ttl > 0 ? Date.now() + (ttl * 1000) : Infinity
ExpiryOf(ttl, t) == IF ttl > 0 THEN Num(t + ttl * 1000) ELSE Infinity

\* e < Date.now(): null converts to 0, Infinity is below nothing
JsLess(e, t) ==
    CASE e.kind = "num" -> e.ms < t
      [] e.kind = "inf" -> FALSE
      [] e.kind = "null" -> 0 < t

\* the sign of a.expiry - b.expiry as Array.prototype.sort reads it (NaN counts as 0)
ExpiryCompare(a, b) ==
    CASE a.kind = "num" /\ b.kind = "num" ->
           (IF a.ms < b.ms THEN -1 ELSE IF a.ms > b.ms THEN 1 ELSE 0)
      [] a.kind = "num" /\ b.kind = "inf" -> -1
      [] a.kind = "inf" /\ b.kind = "num" -> 1
      [] OTHER -> 0

\* JSON.parse(JSON.stringify(e)) of a number: Infinity is written as null
JsonNumber(e) == IF e.kind = "num" THEN e ELSE JsonNull

RECURSIVE Digits(_)
Digits(n) == IF n < 10 THEN 1 ELSE 1 + Digits(n \div 10)

\* length of the JSON text of a number
JsonNumberLen(e) == IF e.kind = "num" THEN Digits(e.ms) ELSE 4

\* a value that refers to itself
Cyclic == "cyclic"

\* a serializer that writes something for every value
StringifyNeverThrows(v) == FALSE

\* JSON.stringify throws a TypeError on a circular structure
StringifyThrows(v) == v = Cyclic

\* length of JSON.stringify(value) of the payloads (no text is produced for Cyclic)
JsonLen(v) ==
    CASE v = "v1" -> 5000000
      [] v = "v2" -> 20000000
      [] v = "v3" -> 10000000
      [] v = Cyclic -> 0

\* estimateSize({ value, expiry }): {"value":<value>,"expiry":<expiry>} at 2 bytes a character
estimateSize(value, expiry) == (9 + JsonLen(value) + 10 + JsonNumberLen(expiry) + 1) * 2

EntrySize(e) == estimateSize(e.value, e.expiry)

---------------------------------------------------------------------------
(* The local store: memoryCache as a sequence of [key, value, expiry] in   *)
(* property order, and the running total memoryCacheSize                   *)

RECURSIVE MemIndex(_, _)
\* the position of key k in the store, 0 when memoryCache[k] is undefined
MemIndex(cache, k) ==
    IF cache = <<>> THEN 0
    ELSE IF Head(cache).key = k THEN 1
    ELSE LET i == MemIndex(Tail(cache), k) IN IF i = 0 THEN 0 ELSE i + 1

MemHas(cache, k) == MemIndex(cache, k) # 0

MemEntry(cache, k) == cache[MemIndex(cache, k)]

MemKeys(cache) == {cache[i].key : i \in 1..Len(cache)}

\* delete memoryCache[k]
MemRemove(cache, k) ==
    LET i == MemIndex(cache, k)
    IN IF i = 0 THEN cache ELSE SubSeq(cache, 1, i - 1) \o SubSeq(cache, i + 1, Len(cache))

\* memoryCache[k] = e: an existing property keeps its place, a new one goes last
MemAssign(cache, k, e) ==
    LET i == MemIndex(cache, k)
    IN IF i = 0 THEN Append(cache, e) ELSE [cache EXCEPT ![i] = e]

RECURSIVE SortInsert(_, _)
\* e placed behind every entry that does not compare greater (the sort is stable)
SortInsert(sorted, e) ==
    IF sorted = <<>> THEN <<e>>
    ELSE IF ExpiryCompare(Head(sorted).expiry, e.expiry) <= 0
         THEN <<Head(sorted)>> \o SortInsert(Tail(sorted), e)
         ELSE <<e>> \o sorted

\* the entries left in insertion order, as a limit check that never sorts would take them
InsertionOrder(entries) == entries

RECURSIVE SortByExpiry(_)
\* entries.sort((a, b) => a[1].expiry - b[1].expiry)
SortByExpiry(entries) ==
    IF entries = <<>> THEN <<>>
    ELSE SortInsert(SortByExpiry(SubSeq(entries, 1, Len(entries) - 1)), entries[Len(entries)])

RECURSIVE EvictLoop(_, _, _, _, _)
\* while (memoryCacheSize + newItemSize > MAX_CACHE_SIZE && entries.length > 0) shift and delete
EvictLoop(entries, cache, size, newItemSize, evicted) ==
    IF size + newItemSize > MAX_CACHE_SIZE /\ entries # <<>>
    THEN EvictLoop(Tail(entries), MemRemove(cache, Head(entries).key),
                   size - EntrySize(Head(entries)), newItemSize,
                   evicted \cup {Head(entries).key})
    ELSE [cache |-> cache, size |-> size, evicted |-> evicted]

enforceSizeLimit(cache, size, newItemSize) ==
    IF size + newItemSize > MAX_CACHE_SIZE
    THEN EvictLoop(SortByExpiry(cache), cache, size, newItemSize, {})
    ELSE [cache |-> cache, size |-> size, evicted |-> {}]

\* a store that refuses an entry larger than the whole ceiling
MemSetWithinLimit(cache, size, k, v, ttl, t) ==
    LET expiry == ExpiryOf(ttl, t)
        itemSize == estimateSize(v, expiry)
        r == enforceSizeLimit(cache, size, itemSize)
    IN IF itemSize > MAX_CACHE_SIZE
       THEN [cache |-> cache, size |-> size, evicted |-> {}]
       ELSE [cache |-> MemAssign(r.cache, k, [key |-> k, value |-> v, expiry |-> expiry]),
             size |-> r.size + itemSize,
             evicted |-> r.evicted]

\* set, lines 77-84: estimate, evict, insert, count
MemSet(cache, size, k, v, ttl, t) ==
    LET expiry == ExpiryOf(ttl, t)
        itemSize == estimateSize(v, expiry)
        r == enforceSizeLimit(cache, size, itemSize)
    IN [cache |-> MemAssign(r.cache, k, [key |-> k, value |-> v, expiry |-> expiry]),
        size |-> r.size + itemSize,
        evicted |-> r.evicted]

\* an expired read that deletes the entry and forgets to discount its size
MemGetKeepsSize(cache, size, k, t) ==
    IF ~MemHas(cache, k)
    THEN [cache |-> cache, size |-> size, ret |-> Null]
    ELSE IF JsLess(MemEntry(cache, k).expiry, t)
         THEN [cache |-> MemRemove(cache, k), size |-> size, ret |-> Null]
         ELSE [cache |-> cache, size |-> size, ret |-> MemEntry(cache, k).value]

\* get, lines 112-131: miss, expired (removed and discounted), hit
MemGet(cache, size, k, t) ==
    IF ~MemHas(cache, k)
    THEN [cache |-> cache, size |-> size, ret |-> Null]
    ELSE IF JsLess(MemEntry(cache, k).expiry, t)
         THEN [cache |-> MemRemove(cache, k),
               size |-> size - EntrySize(MemEntry(cache, k)),
               ret |-> Null]
         ELSE [cache |-> cache, size |-> size, ret |-> MemEntry(cache, k).value]

\* del, lines 154-160
MemDel(cache, size, k) ==
    IF MemHas(cache, k)
    THEN [cache |-> MemRemove(cache, k), size |-> size - EntrySize(MemEntry(cache, k))]
    ELSE [cache |-> cache, size |-> size]

\* the sum of estimateSize over the resident entries
RECURSIVE MemTotal(_)
MemTotal(cache) == IF cache = <<>> THEN 0 ELSE EntrySize(Head(cache)) + MemTotal(Tail(cache))

---------------------------------------------------------------------------
(* The Redis tier: redisCache.server.ts.  Each function is the set of its  *)
(* possible results, one for each way the commands it issues can resolve   *)
(* or reject.                                                              *)

\* catch clauses that let the error through
Rethrow(thrown) == thrown

\* catch (error) { console.error(...) }: the error is logged and goes no further
LogAndContinue(thrown) == FALSE

\* how a command sent to the server can end
CommandOutcomes(down) == IF down THEN {"reject"} ELSE {"resolve", "reject"}

NoEntry == [present |-> FALSE, value |-> Null, expiry |-> JsonNull, ttl |-> FALSE]

\* the module state of redisCache.server.ts
Conn == [client |-> redisClient, failed |-> redisConnectionFailed,
         connecting |-> isRedisConnecting, live |-> liveClient]

\* a getRedisClient that takes a held client as proof that the connection is well again
getRedisClientSelfHeal(c, down) ==
    IF c.client # "null"
    THEN {[conn |-> [c EXCEPT !.failed = FALSE], got |-> c.client, cmds |-> 0, err |-> FALSE]}
    ELSE IF c.failed THEN {[conn |-> c, got |-> "null", cmds |-> 0, err |-> FALSE]}
    ELSE IF c.connecting THEN {[conn |-> c, got |-> c.client, cmds |-> 0, err |-> FALSE]}
    ELSE {IF ping = "resolve"
          THEN [conn |-> [client |-> "client", failed |-> FALSE,
                          connecting |-> FALSE, live |-> TRUE],
                got |-> "client", cmds |-> 1, err |-> FALSE]
          ELSE [conn |-> [client |-> "null", failed |-> TRUE,
                          connecting |-> FALSE, live |-> TRUE],
                got |-> "null", cmds |-> 1, err |-> TRUE]
          : ping \in CommandOutcomes(down)}

\* getRedisClient: the client it returns ("null" for none) and the module state it leaves
getRedisClient(c, down) ==
    IF c.client # "null" THEN {[conn |-> c, got |-> c.client, cmds |-> 0, err |-> FALSE]}
    ELSE IF c.failed THEN {[conn |-> c, got |-> "null", cmds |-> 0, err |-> FALSE]}
    ELSE IF c.connecting THEN {[conn |-> c, got |-> c.client, cmds |-> 0, err |-> FALSE]}
    ELSE {IF ping = "resolve"
          THEN [conn |-> [client |-> "client", failed |-> FALSE,
                          connecting |-> FALSE, live |-> TRUE],
                got |-> "client", cmds |-> 1, err |-> FALSE]
          ELSE [conn |-> [client |-> "null", failed |-> TRUE,
                          connecting |-> FALSE, live |-> TRUE],
                got |-> "null", cmds |-> 1, err |-> TRUE]
          : ping \in CommandOutcomes(down)}

\* the envelope JSON.parse reads back from JSON.stringify({ value, expiry })
Envelope(v, expiry, ttlApplied) ==
    [present |-> TRUE, value |-> v, expiry |-> JsonNumber(expiry), ttl |-> ttlApplied]

\* setRedisCache: SET, then EXPIRE when ttl > 0
setRedisCache(c, store, k, v, ttl, t, down) ==
    UNION {
      IF g.got = "null"
      THEN {[conn |-> g.conn, store |-> store, ok |-> FALSE, cmds |-> g.cmds,
             err |-> g.err, exc |-> FALSE]}
      ELSE IF StringifyThrows(v)
      THEN {[conn |-> g.conn, store |-> store, ok |-> FALSE, cmds |-> g.cmds,
             err |-> g.err, exc |-> LogAndContinue(TRUE)]}
      ELSE UNION {
        IF s = "reject"
        THEN {[conn |-> g.conn, store |-> store, ok |-> FALSE, cmds |-> g.cmds + 1,
               err |-> TRUE, exc |-> LogAndContinue(TRUE)]}
        ELSE IF ttl > 0
        THEN {IF e = "reject"
              THEN [conn |-> g.conn,
                    store |-> [store EXCEPT ![k] = Envelope(v, ExpiryOf(ttl, t), FALSE)],
                    ok |-> FALSE, cmds |-> g.cmds + 2, err |-> TRUE,
                    exc |-> LogAndContinue(TRUE)]
              ELSE [conn |-> g.conn,
                    store |-> [store EXCEPT ![k] = Envelope(v, ExpiryOf(ttl, t), TRUE)],
                    ok |-> TRUE, cmds |-> g.cmds + 2, err |-> g.err, exc |-> FALSE]
              : e \in CommandOutcomes(down)}
        ELSE {[conn |-> g.conn,
               store |-> [store EXCEPT ![k] = Envelope(v, ExpiryOf(ttl, t), FALSE)],
               ok |-> TRUE, cmds |-> g.cmds + 1, err |-> g.err, exc |-> FALSE]}
        : s \in CommandOutcomes(down)}
      : g \in getRedisClient(c, down)}

\* a getRedisCache that leaves expiry to the EXPIRE time Redis keeps for the key
getRedisCacheNativeTTL(c, store, k, t, down) ==
    UNION {
      IF g.got = "null"
      THEN {[conn |-> g.conn, store |-> store, ret |-> Null, cmds |-> g.cmds,
             err |-> g.err, exc |-> FALSE]}
      ELSE {IF r = "reject"
            THEN [conn |-> g.conn, store |-> store, ret |-> Null, cmds |-> g.cmds + 1,
                  err |-> TRUE, exc |-> LogAndContinue(TRUE)]
            ELSE [conn |-> g.conn, store |-> store,
                  ret |-> IF store[k].present THEN store[k].value ELSE Null,
                  cmds |-> g.cmds + 1, err |-> g.err, exc |-> FALSE]
            : r \in CommandOutcomes(down)}
      : g \in getRedisClient(c, down)}

\* getRedisCache: GET, the envelope's expiry checked against the clock, DEL when it has passed
getRedisCache(c, store, k, t, down) ==
    UNION {
      IF g.got = "null"
      THEN {[conn |-> g.conn, store |-> store, ret |-> Null, cmds |-> g.cmds,
             err |-> g.err, exc |-> FALSE]}
      ELSE UNION {
        IF r = "reject"
        THEN {[conn |-> g.conn, store |-> store, ret |-> Null, cmds |-> g.cmds + 1,
               err |-> TRUE, exc |-> LogAndContinue(TRUE)]}
        ELSE IF ~store[k].present
        THEN {[conn |-> g.conn, store |-> store, ret |-> Null, cmds |-> g.cmds + 1,
               err |-> g.err, exc |-> FALSE]}
        ELSE IF JsLess(store[k].expiry, t)
        THEN {IF d = "reject"
              THEN [conn |-> g.conn, store |-> store, ret |-> Null, cmds |-> g.cmds + 2,
                    err |-> TRUE, exc |-> LogAndContinue(TRUE)]
              ELSE [conn |-> g.conn, store |-> [store EXCEPT ![k] = NoEntry], ret |-> Null,
                    cmds |-> g.cmds + 2, err |-> g.err, exc |-> FALSE]
              : d \in CommandOutcomes(down)}
        ELSE {[conn |-> g.conn, store |-> store, ret |-> store[k].value,
               cmds |-> g.cmds + 1, err |-> g.err, exc |-> FALSE]}
        : r \in CommandOutcomes(down)}
      : g \in getRedisClient(c, down)}

\* deleteRedisCache: DEL
deleteRedisCache(c, store, k, down) ==
    UNION {
      IF g.got = "null"
      THEN {[conn |-> g.conn, store |-> store, ok |-> FALSE, cmds |-> g.cmds,
             err |-> g.err, exc |-> FALSE]}
      ELSE {IF d = "reject"
            THEN [conn |-> g.conn, store |-> store, ok |-> FALSE, cmds |-> g.cmds + 1,
                  err |-> TRUE, exc |-> LogAndContinue(TRUE)]
            ELSE [conn |-> g.conn, store |-> [store EXCEPT ![k] = NoEntry], ok |-> TRUE,
                  cmds |-> g.cmds + 1, err |-> g.err, exc |-> FALSE]
            : d \in CommandOutcomes(down)}
      : g \in getRedisClient(c, down)}

\* clearRedisCache: FLUSHDB
clearRedisCache(c, store, down) ==
    UNION {
      IF g.got = "null"
      THEN {[conn |-> g.conn, store |-> store, ok |-> FALSE, cmds |-> g.cmds,
             err |-> g.err, exc |-> FALSE]}
      ELSE {IF f = "reject"
            THEN [conn |-> g.conn, store |-> store, ok |-> FALSE, cmds |-> g.cmds + 1,
                  err |-> TRUE, exc |-> LogAndContinue(TRUE)]
            ELSE [conn |-> g.conn, store |-> [k \in Keys |-> NoEntry], ok |-> TRUE,
                  cmds |-> g.cmds + 1, err |-> g.err, exc |-> FALSE]
            : f \in CommandOutcomes(down)}
      : g \in getRedisClient(c, down)}

NoStats == [type |-> "none", size |-> 0, keys |-> 0]

\* getRedisStats: INFO memory, then DBSIZE; null when there is no client or a command rejects
getRedisStats(c, store, down) ==
    UNION {
      IF g.got = "null"
      THEN {[conn |-> g.conn, stats |-> NoStats, cmds |-> g.cmds, err |-> g.err,
             exc |-> FALSE]}
      ELSE UNION {
        IF i = "reject"
        THEN {[conn |-> g.conn, stats |-> NoStats, cmds |-> g.cmds + 1, err |-> TRUE,
               exc |-> LogAndContinue(TRUE)]}
        ELSE {IF d = "reject"
              THEN [conn |-> g.conn, stats |-> NoStats, cmds |-> g.cmds + 2, err |-> TRUE,
                    exc |-> LogAndContinue(TRUE)]
              ELSE [conn |-> g.conn,
                    stats |-> [type |-> "redis", size |-> 0,
                               keys |-> Cardinality({k \in Keys : store[k].present})],
                    cmds |-> g.cmds + 2, err |-> g.err, exc |-> FALSE]
              : d \in CommandOutcomes(down)}
        : i \in CommandOutcomes(down)}
      : g \in getRedisClient(c, down)}

---------------------------------------------------------------------------
(* The public operations of cacheService.ts (lines 56-237), each the set   *)
(* of its possible results                                                 *)

\* the Redis tier left as it was, for a call that does not reach it
Untouched(c, store) == [conn |-> c, store |-> store, cmds |-> 0, err |-> FALSE]

\* set: Redis first on the server, the local store when Redis did not take the value
set(srv, c, store, cache, size, k, v, ttl, t, down) ==
    LET local(r) ==
          IF StringifyThrows(v)
          THEN [conn |-> r.conn, store |-> r.store, cache |-> cache, size |-> size,
                ret |-> Void, tier |-> "none", cmds |-> r.cmds, err |-> r.err,
                threw |-> LogAndContinue(TRUE), evicted |-> {}]
          ELSE LET m == MemSet(cache, size, k, v, ttl, t)
               IN [conn |-> r.conn, store |-> r.store, cache |-> m.cache, size |-> m.size,
                   ret |-> Void, tier |-> "memory", cmds |-> r.cmds, err |-> r.err,
                   threw |-> FALSE, evicted |-> m.evicted]
    IN IF ~srv THEN {local(Untouched(c, store))}
       ELSE {IF r.exc /\ LogAndContinue(r.exc)
             THEN [conn |-> r.conn, store |-> r.store, cache |-> cache, size |-> size,
                   ret |-> Void, tier |-> "none", cmds |-> r.cmds, err |-> r.err,
                   threw |-> TRUE, evicted |-> {}]
             ELSE IF r.ok
             THEN [conn |-> r.conn, store |-> r.store, cache |-> cache, size |-> size,
                   ret |-> Void, tier |-> "redis", cmds |-> r.cmds, err |-> r.err,
                   threw |-> FALSE, evicted |-> {}]
             ELSE local(r)
             : r \in setRedisCache(c, store, k, v, ttl, t, down)}

\* a get that stops at the Redis answer on the server and never reads the local store
getRemoteOnly(srv, c, store, cache, size, k, t, down) ==
    IF ~srv
    THEN {[conn |-> c, store |-> store, cache |-> MemGet(cache, size, k, t).cache,
           size |-> MemGet(cache, size, k, t).size, ret |-> MemGet(cache, size, k, t).ret,
           tier |-> "memory", cmds |-> 0, err |-> FALSE, threw |-> FALSE, evicted |-> {}]}
    ELSE {[conn |-> r.conn, store |-> r.store, cache |-> cache, size |-> size,
           ret |-> r.ret, tier |-> "redis", cmds |-> r.cmds, err |-> r.err,
           threw |-> FALSE, evicted |-> {}]
          : r \in getRedisCache(c, store, k, t, down)}

\* get: the Redis value when there is one, else the local store
get(srv, c, store, cache, size, k, t, down) ==
    LET local(r) ==
          LET m == MemGet(cache, size, k, t)
          IN [conn |-> r.conn, store |-> r.store, cache |-> m.cache, size |-> m.size,
              ret |-> m.ret, tier |-> "memory", cmds |-> r.cmds, err |-> r.err,
              threw |-> FALSE, evicted |-> {}]
    IN IF ~srv THEN {local(Untouched(c, store))}
       ELSE {IF r.exc /\ LogAndContinue(r.exc)
             THEN [conn |-> r.conn, store |-> r.store, cache |-> cache, size |-> size,
                   ret |-> Null, tier |-> "none", cmds |-> r.cmds, err |-> r.err,
                   threw |-> TRUE, evicted |-> {}]
             ELSE IF r.ret # Null
             THEN [conn |-> r.conn, store |-> r.store, cache |-> cache, size |-> size,
                   ret |-> r.ret, tier |-> "redis", cmds |-> r.cmds, err |-> r.err,
                   threw |-> FALSE, evicted |-> {}]
             ELSE local(r)
             : r \in getRedisCache(c, store, k, t, down)}

\* del: Redis on the server, and always the local store
del(srv, c, store, cache, size, k, down) ==
    LET local(r) ==
          LET m == MemDel(cache, size, k)
          IN [conn |-> r.conn, store |-> r.store, cache |-> m.cache, size |-> m.size,
              ret |-> Void, tier |-> "memory", cmds |-> r.cmds, err |-> r.err,
              threw |-> FALSE, evicted |-> {}]
    IN IF ~srv THEN {local(Untouched(c, store))}
       ELSE {IF r.exc /\ LogAndContinue(r.exc)
             THEN [conn |-> r.conn, store |-> r.store, cache |-> cache, size |-> size,
                   ret |-> Void, tier |-> "none", cmds |-> r.cmds, err |-> r.err,
                   threw |-> TRUE, evicted |-> {}]
             ELSE local(r)
             : r \in deleteRedisCache(c, store, k, down)}

\* clear: Redis on the server, and always the local store
clear(srv, c, store, cache, size, down) ==
    LET local(r) ==
          [conn |-> r.conn, store |-> r.store, cache |-> <<>>, size |-> 0,
           ret |-> Void, tier |-> "memory", cmds |-> r.cmds, err |-> r.err,
           threw |-> FALSE, evicted |-> {}]
    IN IF ~srv THEN {local(Untouched(c, store))}
       ELSE {IF r.exc /\ LogAndContinue(r.exc)
             THEN [conn |-> r.conn, store |-> r.store, cache |-> cache, size |-> size,
                   ret |-> Void, tier |-> "none", cmds |-> r.cmds, err |-> r.err,
                   threw |-> TRUE, evicted |-> {}]
             ELSE local(r)
             : r \in clearRedisCache(c, store, down)}

\* getStats: the Redis statistics when Redis answers, else those of the local store
getStats(srv, c, store, cache, size, down) ==
    LET local(r) ==
          [conn |-> r.conn, stats |-> [type |-> "memory", size |-> size, keys |-> Len(cache)],
           tier |-> "memory", cmds |-> r.cmds, err |-> r.err, threw |-> FALSE]
    IN IF ~srv THEN {local(Untouched(c, store))}
       ELSE {IF r.exc /\ LogAndContinue(r.exc)
             THEN [conn |-> r.conn, stats |-> NoStats, tier |-> "none", cmds |-> r.cmds,
                   err |-> r.err, threw |-> TRUE]
             ELSE IF r.stats # NoStats
             THEN [conn |-> r.conn, stats |-> r.stats, tier |-> "redis", cmds |-> r.cmds,
                   err |-> r.err, threw |-> FALSE]
             ELSE local(r)
             : r \in getRedisStats(c, store, down)}

---------------------------------------------------------------------------
(* State and actions *)

Idle == [op |-> "idle", key |-> "", val |-> Null, ttl |-> 0, ret |-> Void, tier |-> "none",
         cmds |-> 0, err |-> FALSE, threw |-> FALSE, evicted |-> {}, stats |-> NoStats]

Record(call) == IF recording THEN call ELSE Idle

\* the callers whose calls can be in progress at the same time
Procs == {1, 2}

\* a caller with no call in progress: op and arguments of its last call, expiry as line
\* 58 computed it, pc the statement it is suspended at or about to run, itemSize as
\* line 78 computed it, expired whether getRedisCache found the envelope expired
NoTask == [op |-> "none", pc |-> "done", key |-> "", val |-> Null, ttl |-> 0,
           expiry |-> JsonNull, itemSize |-> 0, expired |-> FALSE, ok |-> FALSE,
           ret |-> Void]

asyncVars == <<calls, started, ioredis>>

\* no Redis object made yet
NoClient == [status |-> "none", retryAttempts |-> 0, retryDelay |-> 0, ping |-> "none",
             elapsed |-> 0]

\* no call in progress
NoCalls ==
    /\ calls = [p \in Procs |-> NoTask]
    /\ started = 0
    /\ ioredis = NoClient

\* no call of the class CacheService in progress or returned
NoCall == [op |-> "none", key |-> "", val |-> Null, ttl |-> 0, ret |-> Null,
           threw |-> FALSE, snapshot |-> [k \in Keys |-> "absent"],
           enumFailed |-> FALSE, readFailed |-> {}, failed |-> FALSE,
           local |-> FALSE, s3 |-> FALSE]

\* the class CacheService not in use: nothing stored, no snapshot anywhere
CacheServiceUnused ==
    /\ s3 = FALSE
    /\ redis = [k \in Keys |-> [text |-> "nil", ex |-> 0]]
    /\ isInitialized = FALSE
    /\ snapshotFiles = <<>>
    /\ latestLink = 0
    /\ s3Latest = [exists |-> FALSE, data |-> [k \in Keys |-> "absent"]]
    /\ pc = "ready"
    /\ depth = 0
    /\ pending = NoCall
    /\ loadFailed = FALSE
    /\ returned = NoCall

\* the module state of the function-based service as it is loaded
InitFunctions ==
    /\ now = StartTime
    /\ memoryCache = <<>>
    /\ memoryCacheSize = 0
    /\ redisClient = "null"
    /\ isRedisConnecting = FALSE
    /\ redisConnectionFailed = FALSE
    /\ liveClient = FALSE
    /\ redisStore = [k \in Keys |-> NoEntry]
    /\ sets = 0
    /\ last = Idle
    /\ refCache = <<>>
    /\ refSize = 0
    /\ refRet = Void
    /\ NoCalls

InitProgram == CacheServiceUnused /\ InitFunctions

\* the module is loaded in the browser or on the server
Init ==
    /\ InitProgram
    /\ isServer \in BOOLEAN
    /\ redisDown = FALSE
    /\ recording = FALSE

\* the same, with the most recent call kept in last
InitTrace ==
    /\ InitProgram
    /\ isServer \in BOOLEAN
    /\ redisDown = FALSE
    /\ recording = TRUE

SetConn(c) ==
    /\ redisClient' = c.client
    /\ redisConnectionFailed' = c.failed
    /\ isRedisConnecting' = c.connecting
    /\ liveClient' = c.live

config == <<isServer, redisDown, recording>>

refVars == <<refCache, refSize, refRet>>

Set(k, v, ttl) ==
    /\ sets < MaxSets
    /\ \E o \in set(isServer, Conn, redisStore, memoryCache, memoryCacheSize, k, v, ttl,
                    now, redisDown) :
         /\ SetConn(o.conn)
         /\ redisStore' = o.store
         /\ memoryCache' = o.cache
         /\ memoryCacheSize' = o.size
         /\ last' = Record([Idle EXCEPT !.op = "set", !.key = k, !.val = v, !.ttl = ttl,
                                        !.tier = o.tier, !.cmds = o.cmds, !.err = o.err,
                                        !.threw = o.threw, !.evicted = o.evicted])
    /\ sets' = sets + 1
    /\ UNCHANGED <<config, now>>

Get(k) ==
    /\ \E o \in get(isServer, Conn, redisStore, memoryCache, memoryCacheSize, k, now,
                    redisDown) :
         /\ SetConn(o.conn)
         /\ redisStore' = o.store
         /\ memoryCache' = o.cache
         /\ memoryCacheSize' = o.size
         /\ last' = Record([Idle EXCEPT !.op = "get", !.key = k, !.ret = o.ret,
                                        !.tier = o.tier, !.cmds = o.cmds, !.err = o.err,
                                        !.threw = o.threw])
    /\ UNCHANGED <<config, now, sets>>

Del(k) ==
    /\ \E o \in del(isServer, Conn, redisStore, memoryCache, memoryCacheSize, k,
                    redisDown) :
         /\ SetConn(o.conn)
         /\ redisStore' = o.store
         /\ memoryCache' = o.cache
         /\ memoryCacheSize' = o.size
         /\ last' = Record([Idle EXCEPT !.op = "delete", !.key = k, !.tier = o.tier,
                                        !.cmds = o.cmds, !.err = o.err, !.threw = o.threw])
    /\ UNCHANGED <<config, now, sets>>

Clear ==
    /\ \E o \in clear(isServer, Conn, redisStore, memoryCache, memoryCacheSize, redisDown) :
         /\ SetConn(o.conn)
         /\ redisStore' = o.store
         /\ memoryCache' = o.cache
         /\ memoryCacheSize' = o.size
         /\ last' = Record([Idle EXCEPT !.op = "clear", !.tier = o.tier, !.cmds = o.cmds,
                                        !.err = o.err, !.threw = o.threw])
    /\ UNCHANGED <<config, now, sets>>

GetStats ==
    /\ \E o \in getStats(isServer, Conn, redisStore, memoryCache, memoryCacheSize,
                         redisDown) :
         /\ SetConn(o.conn)
         /\ last' = Record([Idle EXCEPT !.op = "getStats", !.tier = o.tier,
                                        !.cmds = o.cmds, !.err = o.err, !.threw = o.threw,
                                        !.stats = o.stats])
    /\ UNCHANGED <<config, now, sets, redisStore, memoryCache, memoryCacheSize>>

\* redisClient.on('error'), lines 52-58
ErrorEvent ==
    /\ liveClient
    /\ redisConnectionFailed' =
         (IF redisClient # "null" /\ ~redisConnectionFailed THEN TRUE
          ELSE redisConnectionFailed)
    /\ UNCHANGED <<config, now, memoryCache, memoryCacheSize, redisClient,
                   isRedisConnecting, liveClient, redisStore, sets, last>>

\* redisClient.on('connect'), lines 60-63
ConnectEvent ==
    /\ liveClient
    /\ ~redisDown
    /\ redisConnectionFailed' = FALSE
    /\ UNCHANGED <<config, now, memoryCache, memoryCacheSize, redisClient,
                   isRedisConnecting, liveClient, redisStore, sets, last>>

\* the keys whose EXPIRE time has come are gone from the Redis keyspace
Purge(store, t) ==
    [k \in Keys |-> IF store[k].present /\ store[k].ttl /\ store[k].expiry.ms <= t
                    THEN NoEntry ELSE store[k]]

\* time passes
Tick ==
    /\ now < StartTime + MaxTicks * TickMs
    /\ now' = now + TickMs
    /\ redisStore' = Purge(redisStore, now')
    /\ last' = Idle
    /\ UNCHANGED <<config, memoryCache, memoryCacheSize, redisClient, isRedisConnecting,
                   redisConnectionFailed, liveClient, sets>>

Next ==
    \/ \E k \in Keys, v \in Values, ttl \in TTLs : Set(k, v, ttl) /\ UNCHANGED <<refVars, snapVars, asyncVars>>
    \/ \E k \in Keys : Get(k) /\ UNCHANGED <<refVars, snapVars, asyncVars>>
    \/ \E k \in Keys : Del(k) /\ UNCHANGED <<refVars, snapVars, asyncVars>>
    \/ Clear /\ UNCHANGED <<refVars, snapVars, asyncVars>>
    \/ GetStats /\ UNCHANGED <<refVars, snapVars, asyncVars>>
    \/ ErrorEvent /\ UNCHANGED <<refVars, snapVars, asyncVars>>
    \/ ConnectEvent /\ UNCHANGED <<refVars, snapVars, asyncVars>>
    \/ Tick /\ UNCHANGED <<refVars, snapVars, asyncVars>>

\* the cache service in either runtime, the Redis server behaving in any way
Spec == Init /\ [][Next]_vars

\* the same behaviours, each state also holding the most recent call
SpecTrace == InitTrace /\ [][Next]_vars

\* the payloads of the calls when one of them cannot be serialized
Payloads == {"v1", Cyclic}

NextSerial ==
    \/ \E k \in Keys, v \in Payloads, ttl \in TTLs : Set(k, v, ttl) /\ UNCHANGED <<refVars, snapVars, asyncVars>>
    \/ \E k \in Keys : Get(k) /\ UNCHANGED <<refVars, snapVars, asyncVars>>
    \/ \E k \in Keys : Del(k) /\ UNCHANGED <<refVars, snapVars, asyncVars>>
    \/ Clear /\ UNCHANGED <<refVars, snapVars, asyncVars>>
    \/ GetStats /\ UNCHANGED <<refVars, snapVars, asyncVars>>
    \/ ErrorEvent /\ UNCHANGED <<refVars, snapVars, asyncVars>>
    \/ ConnectEvent /\ UNCHANGED <<refVars, snapVars, asyncVars>>
    \/ Tick /\ UNCHANGED <<refVars, snapVars, asyncVars>>

\* the cache service given values that cannot be serialized among its payloads
SpecSerial == InitTrace /\ [][NextSerial]_vars

---------------------------------------------------------------------------
(* The server runtime with a Redis server that fails every command, and    *)
(* beside it the local-only configuration (isServer false) given the same  *)
(* calls at the same times                                                 *)

InitFallback ==
    /\ CacheServiceUnused
    /\ now = StartTime
    /\ memoryCache = <<>>
    /\ memoryCacheSize = 0
    /\ redisClient \in {"null", "client"}
    /\ liveClient = (redisClient = "client")
    /\ isRedisConnecting = FALSE
    /\ redisConnectionFailed = FALSE
    /\ redisStore = [k \in Keys |-> NoEntry]
    /\ sets = 0
    /\ last = Idle
    /\ refCache = <<>>
    /\ refSize = 0
    /\ refRet = Void
    /\ NoCalls
    /\ isServer = TRUE
    /\ redisDown = TRUE
    /\ recording = TRUE

RefSet(k, v, ttl) ==
    LET o == CHOOSE x \in set(FALSE, Conn, redisStore, refCache, refSize, k, v, ttl, now,
                              redisDown) : TRUE
    IN refCache' = o.cache /\ refSize' = o.size /\ refRet' = o.ret

RefGet(k) ==
    LET o == CHOOSE x \in get(FALSE, Conn, redisStore, refCache, refSize, k, now,
                              redisDown) : TRUE
    IN refCache' = o.cache /\ refSize' = o.size /\ refRet' = o.ret

RefDel(k) ==
    LET o == CHOOSE x \in del(FALSE, Conn, redisStore, refCache, refSize, k, redisDown) : TRUE
    IN refCache' = o.cache /\ refSize' = o.size /\ refRet' = o.ret

NextFallback ==
    \/ \E k \in Keys, v \in Values, ttl \in TTLs :
         Set(k, v, ttl) /\ RefSet(k, v, ttl) /\ UNCHANGED <<snapVars, asyncVars>>
    \/ \E k \in Keys : Get(k) /\ RefGet(k) /\ UNCHANGED <<snapVars, asyncVars>>
    \/ \E k \in Keys : Del(k) /\ RefDel(k) /\ UNCHANGED <<snapVars, asyncVars>>
    \/ ErrorEvent /\ UNCHANGED <<refVars, snapVars, asyncVars>>
    \/ Tick /\ refRet' = Void /\ UNCHANGED <<refCache, refSize, snapVars, asyncVars>>

SpecFallback == InitFallback /\ [][NextFallback]_vars

---------------------------------------------------------------------------
(* The snapshot-backed revision: class CacheService, cacheService.ts lines *)
(* 249-552.  Values go to Redis as JSON text; snapshots of the keyspace    *)
(* are written to LOCAL_SNAPSHOT_DIR and, when configured, to S3, and the  *)
(* latest one is replayed by initialize() before the first get or set.     *)

\* the variables of the function-based service
serviceVars == <<isServer, now, memoryCache, memoryCacheSize, redisClient, isRedisConnecting,
                 redisConnectionFailed, liveClient, redisStore, redisDown, sets, recording,
                 last, refVars, asyncVars>>

CACHE_TTL == 86400

\* files LOCAL_SNAPSHOT_DIR can hold
MaxFiles == 2

\* initialize() calls that fit on the call stack one inside the other
StackLimit == 2

\* values of the calls: the string "1"
SnapValues == {"str(1)"}

SnapTTLs == {0, CACHE_TTL}

Absent == "absent"

Nil == "nil"

\* JSON.stringify(value)
Stringify(v) ==
    CASE v = "str(1)" -> "\"1\""
      [] v = "Infinity" -> "null"
      [] v = "null" -> "null"
      [] v = "str(\"1\")" -> "\"\\\"1\\\"\""
      [] OTHER -> "\"...\""

\* JSON.parse(text) throws a SyntaxError
ParseThrows(text) == text \notin {"\"1\"", "null", "\"\\\"1\\\"\"", "\"...\""}

\* JSON.parse(text)
Parse(text) ==
    CASE text = "\"1\"" -> "str(1)"
      [] text = "null" -> "null"
      [] text = "\"\\\"1\\\"\"" -> "str(\"1\")"
      [] text = "\"...\"" -> "str(...)"

\* the text itself taken as a string value
RawString(text) ==
    CASE text = "1" -> "str(1)"
      [] text = "\"1\"" -> "str(\"1\")"
      [] OTHER -> "str(...)"

NoKey == [text |-> Nil, ex |-> 0]

EmptyKeyspace == [k \in Keys |-> NoKey]

NoSnapshot == [k \in Keys |-> Absent]

\* a snapshot that keeps the text Redis returned without parsing it
SnapshotValueRaw(text) == RawString(text)

\* createSnapshot, lines 392-396: the parsed value, the raw text when it is not JSON
SnapshotValue(text) == IF ParseThrows(text) THEN RawString(text) ELSE Parse(text)

\* createSnapshot when every command resolves: each key of redis.keys('*') with its value
SnapshotOf(kv) ==
    [k \in Keys |-> IF kv[k].text = Nil THEN Absent ELSE SnapshotValue(kv[k].text)]

\* createSnapshot: KEYS fails, or the GET of one key fails (the catch returns {}), or
\* every command resolves
createSnapshot(kv) ==
    {[snapshot |-> SnapshotOf(kv), enumFailed |-> FALSE, readFailed |-> {},
      threw |-> FALSE]}
    \cup {[snapshot |-> NoSnapshot, enumFailed |-> TRUE, readFailed |-> {},
           threw |-> LogAndContinue(TRUE)]}
    \cup {[snapshot |-> NoSnapshot, enumFailed |-> FALSE, readFailed |-> {k},
           threw |-> LogAndContinue(TRUE)] : k \in {j \in Keys : kv[j].text # Nil}}

\* JSON.stringify(snapshot): the text of each value under its key
FileText(snapshot) ==
    [k \in Keys |-> IF snapshot[k] = Absent THEN Absent ELSE Stringify(snapshot[k])]

\* JSON.parse(data) of a snapshot file
ParseFile(data) == [k \in Keys |-> IF data[k] = Absent THEN Absent ELSE Parse(data[k])]

\* CacheService.set, lines 326-336: SET key text [EX ttl], a rejected command is logged
CacheService_set(kv, k, v, ttl) ==
    {[kv |-> [kv EXCEPT ![k] = [text |-> Stringify(v), ex |-> IF ttl > 0 THEN ttl ELSE 0]],
      ret |-> Void, failed |-> FALSE, threw |-> FALSE],
     [kv |-> kv, ret |-> Void, failed |-> TRUE, threw |-> LogAndContinue(TRUE)]}

\* what get returns for the text Redis holds
GetValue(kv, k) ==
    IF kv[k].text = Nil THEN Null
    ELSE IF ParseThrows(kv[k].text) THEN Null ELSE Parse(kv[k].text)

\* CacheService.get, lines 345-352
CacheService_get(kv, k) ==
    {[kv |-> kv, ret |-> GetValue(kv, k), failed |-> FALSE, threw |-> FALSE],
     [kv |-> kv, ret |-> Null, failed |-> TRUE, threw |-> LogAndContinue(TRUE)]}

\* CacheService.delete, lines 358-364
CacheService_delete(kv, k) ==
    {[kv |-> [kv EXCEPT ![k] = NoKey], ret |-> Void, failed |-> FALSE, threw |-> FALSE],
     [kv |-> kv, ret |-> Void, failed |-> TRUE, threw |-> LogAndContinue(TRUE)]}

\* CacheService.clear, lines 369-375
CacheService_clear(kv) ==
    {[kv |-> EmptyKeyspace, ret |-> Void, failed |-> FALSE, threw |-> FALSE],
     [kv |-> kv, ret |-> Void, failed |-> TRUE, threw |-> LogAndContinue(TRUE)]}

\* a restore that writes the entries back with no expiry
ReplayNoExpiry(kv, snapshot, failing) ==
    [k \in Keys |-> IF snapshot[k] # Absent /\ k \notin failing
                    THEN [text |-> Stringify(snapshot[k]), ex |-> 0]
                    ELSE kv[k]]

\* the restore loop, lines 482-484: this.set(key, value) for each entry with the default
\* ttl; the keys in failing are those whose SET is rejected
Replay(kv, snapshot, failing) ==
    [k \in Keys |-> IF snapshot[k] # Absent /\ k \notin failing
                    THEN [text |-> Stringify(snapshot[k]), ex |-> CACHE_TTL]
                    ELSE kv[k]]

\* how a call to the file system or to S3 can end
IoOutcomes == {"ok", "throw"}

\* saveSnapshotToLocal, lines 410-429: the snapshot written to a new file, the old link
\* removed, the link made anew; whatever throws is logged and ends the save
saveSnapshotToLocal(kv, files, link) ==
    UNION {UNION {
      IF w = "throw"
      THEN {[files |-> files, link |-> link, wrote |-> FALSE, failed |-> TRUE,
             threw |-> LogAndContinue(TRUE)]}
      ELSE UNION {
        IF u = "throw"
        THEN {[files |-> Append(files, FileText(c.snapshot)), link |-> link,
               wrote |-> TRUE, failed |-> TRUE, threw |-> LogAndContinue(TRUE)]}
        ELSE {IF y = "throw"
              THEN [files |-> Append(files, FileText(c.snapshot)), link |-> 0,
                    wrote |-> TRUE, failed |-> TRUE, threw |-> LogAndContinue(TRUE)]
              ELSE [files |-> Append(files, FileText(c.snapshot)),
                    link |-> Len(files) + 1, wrote |-> TRUE,
                    failed |-> (c.enumFailed \/ c.readFailed # {}), threw |-> FALSE]
              : y \in IoOutcomes}
        : u \in IF link # 0 THEN IoOutcomes ELSE {"ok"}}
      : w \in IoOutcomes} : c \in createSnapshot(kv)}

\* saveSnapshotToS3, lines 434-464: nothing without S3; else the snapshot put under a
\* timestamped key, then put again under the key of the latest snapshot
saveSnapshotToS3(configured, kv, latest) ==
    IF ~configured
    THEN {[latest |-> latest, wrote |-> FALSE, failed |-> FALSE, threw |-> FALSE]}
    ELSE UNION {UNION {
      IF p1 = "throw"
      THEN {[latest |-> latest, wrote |-> FALSE, failed |-> TRUE,
             threw |-> LogAndContinue(TRUE)]}
      ELSE {IF p2 = "throw"
            THEN [latest |-> latest, wrote |-> TRUE, failed |-> TRUE,
                  threw |-> LogAndContinue(TRUE)]
            ELSE [latest |-> [exists |-> TRUE, data |-> FileText(c.snapshot)],
                  wrote |-> TRUE, failed |-> (c.enumFailed \/ c.readFailed # {}),
                  threw |-> FALSE]
            : p2 \in IoOutcomes}
      : p1 \in IoOutcomes} : c \in createSnapshot(kv)}

\* the latest snapshot as initialize() finds it: from S3 when configured, else the file
\* behind latest-snapshot.json
LatestSource ==
    IF s3 THEN s3Latest
    ELSE IF latestLink # 0 THEN [exists |-> TRUE, data |-> snapshotFiles[latestLink]]
    ELSE [exists |-> FALSE, data |-> NoSnapshot]

\* isInitialized after a load that failed leaves the flag as it was
AfterLoadOnlyOnSuccess(failed) == IF failed THEN isInitialized ELSE TRUE

\* initialize, lines 311 and 316: isInitialized = true whether the load failed or not
AfterLoad(failed) == TRUE

\* set(key, value, ttl): initialize() first, then the command
CallSet(k, v, ttl) ==
    /\ pc = "ready"
    /\ IF isInitialized
       THEN /\ \E o \in CacheService_set(redis, k, v, ttl) :
                 /\ redis' = o.kv
                 /\ returned' = [NoCall EXCEPT !.op = "set", !.key = k, !.val = v,
                                               !.ttl = ttl, !.ret = o.ret,
                                               !.threw = o.threw]
            /\ UNCHANGED <<pc, depth, pending>>
       ELSE /\ pc' = "initialize"
            /\ depth' = 0
            /\ pending' = [NoCall EXCEPT !.op = "set", !.key = k, !.val = v, !.ttl = ttl]
            /\ UNCHANGED <<redis, returned>>
    /\ UNCHANGED <<s3, isInitialized, snapshotFiles, latestLink, s3Latest, loadFailed>>

\* get(key): initialize() first, then the command
CallGet(k) ==
    /\ pc = "ready"
    /\ IF isInitialized
       THEN /\ \E o \in CacheService_get(redis, k) :
                 returned' = [NoCall EXCEPT !.op = "get", !.key = k, !.ret = o.ret,
                                            !.threw = o.threw]
            /\ UNCHANGED <<pc, depth, pending>>
       ELSE /\ pc' = "initialize"
            /\ depth' = 0
            /\ pending' = [NoCall EXCEPT !.op = "get", !.key = k]
            /\ UNCHANGED returned
    /\ UNCHANGED <<s3, redis, isInitialized, snapshotFiles, latestLink, s3Latest,
                   loadFailed>>

\* delete(key): the command, with no initialize() before it
CallDelete(k) ==
    /\ pc = "ready"
    /\ \E o \in CacheService_delete(redis, k) :
         /\ redis' = o.kv
         /\ returned' = [NoCall EXCEPT !.op = "delete", !.key = k, !.ret = o.ret,
                                       !.threw = o.threw]
    /\ UNCHANGED <<s3, isInitialized, snapshotFiles, latestLink, s3Latest, pc, depth,
                   pending, loadFailed>>

\* clear(): the command, with no initialize() before it
CallClear ==
    /\ pc = "ready"
    /\ \E o \in CacheService_clear(redis) :
         /\ redis' = o.kv
         /\ returned' = [NoCall EXCEPT !.op = "clear", !.ret = o.ret, !.threw = o.threw]
    /\ UNCHANGED <<s3, isInitialized, snapshotFiles, latestLink, s3Latest, pc, depth,
                   pending, loadFailed>>

\* createSnapshot() called on its own
CallCreateSnapshot ==
    /\ pc = "ready"
    /\ \E c \in createSnapshot(redis) :
         returned' = [NoCall EXCEPT !.op = "createSnapshot", !.snapshot = c.snapshot,
                                    !.enumFailed = c.enumFailed,
                                    !.readFailed = c.readFailed, !.threw = c.threw]
    /\ UNCHANGED <<s3, redis, isInitialized, snapshotFiles, latestLink, s3Latest, pc,
                   depth, pending, loadFailed>>

\* saveSnapshotToLocal() called on demand
CallSaveLocal ==
    /\ pc = "ready"
    /\ Len(snapshotFiles) < MaxFiles
    /\ \E o \in saveSnapshotToLocal(redis, snapshotFiles, latestLink) :
         /\ snapshotFiles' = o.files
         /\ latestLink' = o.link
         /\ returned' = [NoCall EXCEPT !.op = "saveSnapshotToLocal", !.ret = Void,
                                       !.local = o.wrote, !.failed = o.failed,
                                       !.threw = o.threw]
    /\ UNCHANGED <<s3, redis, isInitialized, s3Latest, pc, depth, pending, loadFailed>>

\* saveSnapshotToS3() called on demand
CallSaveS3 ==
    /\ pc = "ready"
    /\ \E o \in saveSnapshotToS3(s3, redis, s3Latest) :
         /\ s3Latest' = o.latest
         /\ returned' = [NoCall EXCEPT !.op = "saveSnapshotToS3", !.ret = Void,
                                       !.s3 = o.wrote, !.failed = o.failed,
                                       !.threw = o.threw]
    /\ UNCHANGED <<s3, redis, isInitialized, snapshotFiles, latestLink, pc, depth, pending,
                   loadFailed>>

\* setupSnapshotSchedule, lines 534-544: the job saves to the local file system and
\* then, if (s3 && S3_BUCKET), to S3 as well
ScheduledJob ==
    /\ pc = "ready"
    /\ Len(snapshotFiles) < MaxFiles
    /\ \E l \in saveSnapshotToLocal(redis, snapshotFiles, latestLink) :
         \E r \in saveSnapshotToS3(s3, redis, s3Latest) :
           /\ snapshotFiles' = l.files
           /\ latestLink' = l.link
           /\ s3Latest' = r.latest
           /\ returned' = [NoCall EXCEPT !.op = "job", !.ret = Void,
                                         !.local = l.wrote, !.s3 = r.wrote,
                                         !.failed = (l.failed \/ r.failed),
                                         !.threw = (l.threw \/ r.threw)]
    /\ UNCHANGED <<s3, redis, isInitialized, pc, depth, pending, loadFailed>>

\* initialize, lines 297-318, entered with isInitialized false: the latest snapshot is
\* looked up and read (loadSnapshotFromS3 when S3 is configured, else
\* loadSnapshotFromLocal); with no snapshot, a failed read or no entry the load is over and
\* isInitialized is set, else the restore loop calls this.set for the first entry
InitializeStep ==
    /\ pc = "initialize"
    /\ \E read \in IoOutcomes :
         IF ~LatestSource.exists
         THEN /\ isInitialized' = AfterLoad(FALSE)
              /\ pc' = "resume"
              /\ UNCHANGED loadFailed
         ELSE IF read = "throw"
         THEN /\ isInitialized' = AfterLoad(TRUE)
              /\ pc' = "resume"
              /\ loadFailed' = TRUE
         ELSE IF ParseFile(LatestSource.data) = NoSnapshot
         THEN /\ isInitialized' = AfterLoad(FALSE)
              /\ pc' = "resume"
              /\ UNCHANGED loadFailed
         ELSE /\ pc' = "set"
              /\ UNCHANGED <<isInitialized, loadFailed>>
    /\ UNCHANGED <<s3, redis, snapshotFiles, latestLink, s3Latest, depth, pending, returned>>

\* the restore loop's this.set(key, value), line 483 or 516: set awaits initialize()
\* (line 324), which finds isInitialized still false and loads again.  From
\* loadSnapshotFromLocal the calls nest on the stack with no await reached: when the
\* stack is full the RangeError ends in a catch clause, that load is over and
\* isInitialized is set.  From loadSnapshotFromS3 every call waits for getObject, so
\* nothing bounds the nesting (depth stops counting at StackLimit)
RestoreSetStep ==
    /\ pc = "set"
    /\ IF depth < StackLimit
       THEN /\ depth' = depth + 1
            /\ pc' = "initialize"
            /\ UNCHANGED <<isInitialized, loadFailed>>
       ELSE IF s3
       THEN /\ pc' = "initialize"
            /\ UNCHANGED <<depth, isInitialized, loadFailed>>
       ELSE /\ isInitialized' = AfterLoad(TRUE)
            /\ pc' = "resume"
            /\ loadFailed' = TRUE
            /\ UNCHANGED depth
    /\ UNCHANGED <<s3, redis, snapshotFiles, latestLink, s3Latest, pending, returned>>

\* initialize() has returned to its caller: a waiting this.set of a restore loop sends
\* its SET, the loop replays the other entries, that load ends and its initialize sets
\* isInitialized; with no restore loop waiting, the call that started it all sends its
\* command and returns
ResumeStep ==
    /\ pc = "resume"
    /\ IF depth > 0
       THEN /\ \E failing \in SUBSET {k \in Keys : LatestSource.data[k] # Absent} :
                 redis' = Replay(redis, ParseFile(LatestSource.data), failing)
            /\ depth' = depth - 1
            /\ isInitialized' = AfterLoad(FALSE)
            /\ UNCHANGED <<pc, pending, returned>>
       ELSE /\ \E o \in IF pending.op = "set"
                        THEN CacheService_set(redis, pending.key, pending.val, pending.ttl)
                        ELSE CacheService_get(redis, pending.key) :
                 /\ redis' = o.kv
                 /\ returned' = [pending EXCEPT !.ret = o.ret, !.threw = o.threw]
            /\ pc' = "ready"
            /\ pending' = NoCall
            /\ UNCHANGED <<depth, isInitialized>>
    /\ UNCHANGED <<s3, snapshotFiles, latestLink, s3Latest, loadFailed>>

\* the snapshots an earlier process can have left behind
PriorSnapshots == [Keys -> {Absent, "\"1\""}]

\* a process starts on an empty Redis, with or without S3, with or without a latest
\* snapshot left by an earlier process (its scheduled job writes it locally and, with S3,
\* to the bucket too)
InitSnapshot ==
    /\ InitFunctions
    /\ isServer = TRUE
    /\ redisDown = FALSE
    /\ recording = FALSE
    /\ s3 \in BOOLEAN
    /\ redis = EmptyKeyspace
    /\ isInitialized = FALSE
    /\ \E prior \in SUBSET PriorSnapshots :
         /\ Cardinality(prior) <= 1
         /\ snapshotFiles = IF prior = {} THEN <<>> ELSE <<CHOOSE d \in prior : TRUE>>
         /\ latestLink = Cardinality(prior)
         /\ s3Latest = IF s3 /\ prior # {}
                       THEN [exists |-> TRUE, data |-> CHOOSE d \in prior : TRUE]
                       ELSE [exists |-> FALSE, data |-> NoSnapshot]
    /\ pc = "ready"
    /\ depth = 0
    /\ pending = NoCall
    /\ loadFailed = FALSE
    /\ returned = NoCall

\* the steps that run without a new call: the continuations of initialize()
BootStep ==
    /\ InitializeStep \/ RestoreSetStep \/ ResumeStep
    /\ UNCHANGED serviceVars

NextSnapshot ==
    \/ \E k \in Keys, v \in SnapValues, ttl \in SnapTTLs :
         CallSet(k, v, ttl) /\ UNCHANGED serviceVars
    \/ \E k \in Keys : CallGet(k) /\ UNCHANGED serviceVars
    \/ \E k \in Keys : CallDelete(k) /\ UNCHANGED serviceVars
    \/ CallClear /\ UNCHANGED serviceVars
    \/ CallCreateSnapshot /\ UNCHANGED serviceVars
    \/ CallSaveLocal /\ UNCHANGED serviceVars
    \/ CallSaveS3 /\ UNCHANGED serviceVars
    \/ ScheduledJob /\ UNCHANGED serviceVars
    \/ InitializeStep /\ UNCHANGED serviceVars
    \/ RestoreSetStep /\ UNCHANGED serviceVars
    \/ ResumeStep /\ UNCHANGED serviceVars

\* the class CacheService: the event loop runs every continuation that is ready
SpecSnapshot == InitSnapshot /\ [][NextSnapshot]_vars /\ WF_vars(BootStep)

\* loadSnapshotFromLocal into an empty Redis when every command resolves
Restore(data) == Replay(EmptyKeyspace, ParseFile(data), {})

---------------------------------------------------------------------------
(* Calls of the function-based service in progress side by side.  A call    *)
(* runs until it reaches an await; there the event loop may run another     *)
(* call or continue this one.  pc names the statement a call is suspended   *)
(* at or about to run: a Redis command it awaits, or a line of              *)
(* cacheService.ts.                                                         *)

\* calls made in one exploration
MaxCalls == 3

AsyncValues == {"v1", "v3"}

\* a local-store step with an await between the eviction loop and the insertion
AwaitInsideLocalStep ==
    {"ping", "SET", "EXPIRE", "GET", "DEL", "DELKEY", "FLUSHDB",
     "local78", "local113", "local155", "local183", "local81"}

\* the statements a call is suspended at: the commands awaited in redisCache.server.ts
\* (redisClient.ping 70, client.set 100, client.expire 103, client.get 122,
\* client.del 134 and 154, client.flushdb 171) and the statements that follow the awaits of cacheService.ts
\* (65, 100, 148, 176)
AwaitPoints ==
    {"ping", "SET", "EXPIRE", "GET", "DEL", "DELKEY", "FLUSHDB",
     "local78", "local113", "local155", "local183"}

\* the event loop is free to run a step of caller p: no other call is in the middle of
\* synchronous code
CanStep(p) == \A q \in Procs \ {p} : calls[q].pc \in AwaitPoints \cup {"done"}

Task(p) == calls[p]

\* the rest of the function-based service, which a step may change in part
asyncFrame == <<config, sets, last, refVars, snapVars, ioredis>>

\* a call is made: the synchronous head of the function up to its first await, then
\* getRedisClient; without a client the Redis function returns at once
BeginCall(p, op, k, v, ttl, command, fallback) ==
    /\ Task(p).pc = "done"
    /\ started < MaxCalls
    /\ CanStep(p)
    /\ started' = started + 1
    /\ \E g \in IF isServer THEN getRedisClient(Conn, redisDown)
                ELSE {[conn |-> Conn, got |-> "null", cmds |-> 0, err |-> FALSE]} :
         /\ SetConn(g.conn)
         /\ calls' = [calls EXCEPT ![p] =
                        [NoTask EXCEPT !.op = op, !.key = k, !.val = v, !.ttl = ttl,
                                       !.expiry = ExpiryOf(ttl, now),
                                       !.pc = IF g.got = "null" THEN fallback ELSE command]]
    /\ UNCHANGED <<asyncFrame, now, memoryCache, memoryCacheSize, redisStore>>

\* set(key, value, ttl), lines 56-65, and setRedisCache, lines 93-98
BeginSet(p, k, v, ttl) == BeginCall(p, "set", k, v, ttl, "SET", "local78")

\* get(key), lines 93-100, and getRedisCache, lines 118-119
BeginGet(p, k) == BeginCall(p, "get", k, Null, 0, "GET", "local113")

\* del(key), lines 141-148, and deleteRedisCache, lines 150-151
BeginDel(p, k) == BeginCall(p, "delete", k, Null, 0, "DELKEY", "local155")

\* clear(), lines 169-176, and clearRedisCache, lines 167-168
BeginClear(p) == BeginCall(p, "clear", "", Null, 0, "FLUSHDB", "local183")

\* a step of caller p that leaves the local store and the connection alone
RemoteStep(p, at) ==
    /\ Task(p).pc = at
    /\ CanStep(p)
    /\ UNCHANGED <<asyncFrame, now, memoryCache, memoryCacheSize, started, redisClient,
                   isRedisConnecting, redisConnectionFailed, liveClient>>

\* a step of caller p in the local store
LocalStep(p, at) ==
    /\ Task(p).pc = at
    /\ CanStep(p)
    /\ UNCHANGED <<asyncFrame, now, redisStore, started, redisClient, isRedisConnecting,
                   redisConnectionFailed, liveClient>>

\* setRedisCache, line 100: await client.set(key, serializedValue)
CommandSet(p) ==
    /\ RemoteStep(p, "SET")
    /\ \E s \in CommandOutcomes(redisDown) :
         IF s = "reject"
         THEN /\ calls' = [calls EXCEPT ![p].pc = "local78"]
              /\ UNCHANGED redisStore
         ELSE /\ redisStore' = [redisStore EXCEPT ![Task(p).key] =
                                  Envelope(Task(p).val, Task(p).expiry, FALSE)]
              /\ calls' = IF Task(p).ttl > 0
                          THEN [calls EXCEPT ![p].pc = "EXPIRE"]
                          ELSE [calls EXCEPT ![p].pc = "done", ![p].ok = TRUE]

\* setRedisCache, line 103: await client.expire(key, ttl); the key keeps no time to
\* live when it is gone by then
CommandExpire(p) ==
    /\ RemoteStep(p, "EXPIRE")
    /\ \E e \in CommandOutcomes(redisDown) :
         IF e = "reject"
         THEN /\ calls' = [calls EXCEPT ![p].pc = "local78"]
              /\ UNCHANGED redisStore
         ELSE /\ redisStore' = IF redisStore[Task(p).key].present
                               THEN [redisStore EXCEPT ![Task(p).key].ttl = TRUE]
                               ELSE redisStore
              /\ calls' = [calls EXCEPT ![p].pc = "done", ![p].ok = TRUE]

\* getRedisCache, lines 122-139: await client.get(key), the envelope parsed and its
\* expiry checked
CommandGet(p) ==
    /\ RemoteStep(p, "GET")
    /\ UNCHANGED redisStore
    /\ \E r \in CommandOutcomes(redisDown) :
         LET e == redisStore[Task(p).key]
         IN IF r = "reject" \/ ~e.present
            THEN calls' = [calls EXCEPT ![p].pc = "local113"]
            ELSE IF JsLess(e.expiry, now)
            THEN calls' = [calls EXCEPT ![p].pc = "DEL", ![p].expired = TRUE]
            ELSE calls' = [calls EXCEPT ![p].pc = "done", ![p].ok = TRUE,
                                        ![p].ret = e.value]

\* getRedisCache, line 134: await client.del(key) for the envelope found expired
CommandDel(p) ==
    /\ RemoteStep(p, "DEL")
    /\ calls' = [calls EXCEPT ![p].pc = "local113"]
    /\ \E d \in CommandOutcomes(redisDown) :
         redisStore' = IF d = "reject" THEN redisStore
                       ELSE [redisStore EXCEPT ![Task(p).key] = NoEntry]

\* deleteRedisCache, line 154: await client.del(key)
CommandDelKey(p) ==
    /\ RemoteStep(p, "DELKEY")
    /\ calls' = [calls EXCEPT ![p].pc = "local155"]
    /\ \E d \in CommandOutcomes(redisDown) :
         redisStore' = IF d = "reject" THEN redisStore
                       ELSE [redisStore EXCEPT ![Task(p).key] = NoEntry]

\* clearRedisCache, line 171: await client.flushdb()
CommandFlushdb(p) ==
    /\ RemoteStep(p, "FLUSHDB")
    /\ calls' = [calls EXCEPT ![p].pc = "local183"]
    /\ \E f \in CommandOutcomes(redisDown) :
         redisStore' = IF f = "reject" THEN redisStore ELSE [k \in Keys |-> NoEntry]

\* set, line 78: const itemSize = estimateSize({ value, expiry })
LocalEstimate(p) ==
    /\ LocalStep(p, "local78")
    /\ calls' = [calls EXCEPT ![p].itemSize = estimateSize(Task(p).val, Task(p).expiry),
                              ![p].pc = "local79"]
    /\ UNCHANGED <<memoryCache, memoryCacheSize>>

\* set, line 79: enforceSizeLimit(itemSize)
LocalEvict(p) ==
    /\ LocalStep(p, "local79")
    /\ LET r == enforceSizeLimit(memoryCache, memoryCacheSize, Task(p).itemSize)
       IN memoryCache' = r.cache /\ memoryCacheSize' = r.size
    /\ calls' = [calls EXCEPT ![p].pc = "local81"]

\* set, line 81: memoryCache[key] = { value, expiry }
LocalInsert(p) ==
    /\ LocalStep(p, "local81")
    /\ memoryCache' = MemAssign(memoryCache, Task(p).key,
                                [key |-> Task(p).key, value |-> Task(p).val,
                                 expiry |-> Task(p).expiry])
    /\ calls' = [calls EXCEPT ![p].pc = "local82"]
    /\ UNCHANGED memoryCacheSize

\* set, line 82: memoryCacheSize += itemSize
LocalCount(p) ==
    /\ LocalStep(p, "local82")
    /\ memoryCacheSize' = memoryCacheSize + Task(p).itemSize
    /\ calls' = [calls EXCEPT ![p].pc = "done"]
    /\ UNCHANGED memoryCache

\* get, lines 113-131: the entry read, a miss or a hit returned, an expired entry left
\* to line 124
LocalRead(p) ==
    /\ LocalStep(p, "local113")
    /\ calls' = IF ~MemHas(memoryCache, Task(p).key)
                THEN [calls EXCEPT ![p].pc = "done", ![p].ret = Null]
                ELSE IF JsLess(MemEntry(memoryCache, Task(p).key).expiry, now)
                THEN [calls EXCEPT ![p].pc = "local124"]
                ELSE [calls EXCEPT ![p].pc = "done",
                                   ![p].ret = MemEntry(memoryCache, Task(p).key).value]
    /\ UNCHANGED <<memoryCache, memoryCacheSize>>

\* get, lines 124-127: the expired entry measured, deleted and discounted
LocalRemove(p) ==
    /\ LocalStep(p, "local124")
    /\ memoryCache' = MemRemove(memoryCache, Task(p).key)
    /\ memoryCacheSize' = memoryCacheSize - EntrySize(MemEntry(memoryCache, Task(p).key))
    /\ calls' = [calls EXCEPT ![p].pc = "done", ![p].ret = Null]

\* del, lines 155-160
LocalDel(p) ==
    /\ LocalStep(p, "local155")
    /\ LET m == MemDel(memoryCache, memoryCacheSize, Task(p).key)
       IN memoryCache' = m.cache /\ memoryCacheSize' = m.size
    /\ calls' = [calls EXCEPT ![p].pc = "done"]

\* clear, lines 183-187
LocalClear(p) ==
    /\ LocalStep(p, "local183")
    /\ memoryCache' = <<>>
    /\ memoryCacheSize' = 0
    /\ calls' = [calls EXCEPT ![p].pc = "done"]

\* the server holds a client it made earlier; no call is in progress
InitAsync ==
    /\ CacheServiceUnused
    /\ NoCalls
    /\ now = StartTime
    /\ memoryCache = <<>>
    /\ memoryCacheSize = 0
    /\ redisClient = "client"
    /\ liveClient = TRUE
    /\ isRedisConnecting = FALSE
    /\ redisConnectionFailed = FALSE
    /\ redisStore = [k \in Keys |-> NoEntry]
    /\ sets = 0
    /\ last = Idle
    /\ refCache = <<>>
    /\ refSize = 0
    /\ refRet = Void
    /\ isServer = TRUE
    /\ redisDown = FALSE
    /\ recording = FALSE

NextAsync ==
    \/ \E p \in Procs, k \in Keys, v \in AsyncValues, ttl \in TTLs : BeginSet(p, k, v, ttl)
    \/ \E p \in Procs, k \in Keys : BeginGet(p, k)
    \/ \E p \in Procs, k \in Keys : BeginDel(p, k)
    \/ \E p \in Procs : BeginClear(p)
    \/ \E p \in Procs : CommandSet(p)
    \/ \E p \in Procs : CommandExpire(p)
    \/ \E p \in Procs : CommandGet(p)
    \/ \E p \in Procs : CommandDel(p)
    \/ \E p \in Procs : CommandDelKey(p)
    \/ \E p \in Procs : CommandFlushdb(p)
    \/ \E p \in Procs : LocalEstimate(p)
    \/ \E p \in Procs : LocalEvict(p)
    \/ \E p \in Procs : LocalInsert(p)
    \/ \E p \in Procs : LocalCount(p)
    \/ \E p \in Procs : LocalRead(p)
    \/ \E p \in Procs : LocalRemove(p)
    \/ \E p \in Procs : LocalDel(p)
    \/ \E p \in Procs : LocalClear(p)
    \/ Tick /\ UNCHANGED <<refVars, snapVars, asyncVars>>

\* the function-based service on the server with calls in progress side by side
SpecAsync == InitAsync /\ [][NextAsync]_vars

---------------------------------------------------------------------------
(* The first connection: getRedisClient, lines 22-87, with the Redis object of line 42 *)

\* connection failures the exploration follows
MaxAttempts == 42

\* new Redis(..., { maxRetriesPerRequest: 3, connectTimeout: 5000, ... })
maxRetriesPerRequest == 3

connectTimeout == 5000

\* the time a failed connection attempt takes: refused at once, or cut at connectTimeout
AttemptTimes == {1, connectTimeout}

\* a retryStrategy that grows without a cap
retryStrategyUncapped(times) == times * 50

\* retryStrategy(times): Math.min(times * 50, 2000)
retryStrategy(times) == IF times * 50 < 2000 THEN times * 50 ELSE 2000

\* event handlers and timers run when no call is between two awaits
LoopFree == \A q \in Procs : calls[q].pc \in AwaitPoints \cup {"done"}

connectFrame == <<isServer, recording, sets, last, refVars, snapVars, now, memoryCache,
                  memoryCacheSize, redisStore>>

\* set(key, value, ttl) on a server that has no client yet: getRedisClient makes the
\* Redis object, registers its handlers and awaits ping (lines 31-70)
FirstUse(p, k, v, ttl) ==
    /\ isServer
    /\ redisClient = "null" /\ ~redisConnectionFailed /\ ~isRedisConnecting
    /\ ioredis.status = "none"
    /\ Task(p).pc = "done"
    /\ started < MaxCalls
    /\ CanStep(p)
    /\ started' = started + 1
    /\ isRedisConnecting' = TRUE
    /\ redisClient' = "client"
    /\ liveClient' = TRUE
    /\ ioredis' = [NoClient EXCEPT !.status = "connecting", !.ping = "pending"]
    /\ calls' = [calls EXCEPT ![p] =
                   [NoTask EXCEPT !.op = "set", !.key = k, !.val = v, !.ttl = ttl,
                                  !.expiry = ExpiryOf(ttl, now), !.pc = "ping"]]
    /\ UNCHANGED <<connectFrame, redisDown, redisConnectionFailed>>

\* a connection attempt fails after t ms: 'error' is emitted (handler of lines 52-58),
\* the retry counter grows and retryStrategy gives the delay of the next attempt; every
\* (maxRetriesPerRequest + 1)-th failure rejects the commands that wait, and the catch
\* of ping (73-76), the return and the finally (68-86) run
ConnectFails(t) ==
    /\ ioredis.status = "connecting"
    /\ redisDown
    /\ ioredis.retryAttempts < MaxAttempts
    /\ LoopFree
    /\ LET n == ioredis.retryAttempts + 1
           gaveUp == ioredis.ping = "pending" /\ n % (maxRetriesPerRequest + 1) = 0
       IN /\ ioredis' = [ioredis EXCEPT
                           !.status = "wait",
                           !.retryAttempts = n,
                           !.retryDelay = retryStrategy(n),
                           !.ping = IF gaveUp THEN "rejected" ELSE @,
                           !.elapsed = IF ioredis.ping = "pending" THEN @ + t ELSE @]
          /\ IF gaveUp
             THEN /\ redisConnectionFailed' = TRUE
                  /\ redisClient' = "null"
                  /\ isRedisConnecting' = FALSE
                  /\ calls' = [q \in Procs |->
                                 IF calls[q].pc = "ping"
                                 THEN [calls[q] EXCEPT !.pc = "local78"] ELSE calls[q]]
             ELSE /\ redisConnectionFailed' =
                       (IF redisClient # "null" /\ ~redisConnectionFailed THEN TRUE
                        ELSE redisConnectionFailed)
                  /\ UNCHANGED <<redisClient, isRedisConnecting, calls>>
    /\ UNCHANGED <<connectFrame, redisDown, liveClient, started>>

\* the delay retryStrategy returned has passed: the next connection attempt starts
RetryTimer ==
    /\ ioredis.status = "wait"
    /\ ioredis' = [ioredis EXCEPT
                     !.status = "connecting",
                     !.elapsed = IF ioredis.ping = "pending" THEN @ + ioredis.retryDelay
                                 ELSE @]
    /\ UNCHANGED <<connectFrame, redisDown, redisClient, isRedisConnecting,
                   redisConnectionFailed, liveClient, calls, started>>

\* a connection attempt succeeds: 'connect' is emitted (handler of lines 60-63), a ping
\* that waits resolves and getRedisClient returns the client (70-78, 85-86)
ConnectSucceeds ==
    /\ ioredis.status = "connecting"
    /\ ~redisDown
    /\ LoopFree
    /\ redisConnectionFailed' = FALSE
    /\ ioredis' = [ioredis EXCEPT !.status = "ready", !.retryAttempts = 0,
                                  !.retryDelay = 0,
                                  !.ping = IF @ = "pending" THEN "resolved" ELSE @]
    /\ IF ioredis.ping = "pending"
       THEN /\ isRedisConnecting' = FALSE
            /\ calls' = [q \in Procs |->
                           IF calls[q].pc = "ping"
                           THEN [calls[q] EXCEPT !.pc = "SET"] ELSE calls[q]]
       ELSE UNCHANGED <<isRedisConnecting, calls>>
    /\ UNCHANGED <<connectFrame, redisDown, redisClient, liveClient, started>>

\* environment: the Redis server becomes unreachable, or reachable again
Reachability ==
    /\ redisDown' = ~redisDown
    /\ UNCHANGED <<connectFrame, redisClient, isRedisConnecting, redisConnectionFailed,
                   liveClient, asyncVars>>

\* a server process before its first use of the cache
InitConnect ==
    /\ InitProgram
    /\ isServer = TRUE
    /\ redisDown \in BOOLEAN
    /\ recording = FALSE

NextConnect ==
    \/ \E p \in Procs, k \in Keys, v \in AsyncValues, ttl \in TTLs : FirstUse(p, k, v, ttl)
    \/ \E t \in AttemptTimes : ConnectFails(t)
    \/ RetryTimer
    \/ ConnectSucceeds
    \/ Reachability
    \/ \E p \in Procs : CommandSet(p)
    \/ \E p \in Procs : CommandExpire(p)
    \/ \E p \in Procs : LocalEstimate(p)
    \/ \E p \in Procs : LocalEvict(p)
    \/ \E p \in Procs : LocalInsert(p)
    \/ \E p \in Procs : LocalCount(p)

\* the first use of the cache on a server, down to the connection attempts of the client
SpecConnect == InitConnect /\ [][NextConnect]_vars

\* the statements inside a local-store step, after its first one: set 79, 81, 82 and
\* get 124
MidLocal == {"local79", "local81", "local82", "local124"}

---------------------------------------------------------------------------
(* Claims *)

\* the state as a call finds it
Here == [conn |-> Conn, store |-> redisStore, cache |-> memoryCache, size |-> memoryCacheSize]

\* the possible results of each call issued in the state st
SetFrom(st, k, v, ttl) ==
    set(isServer, st.conn, st.store, st.cache, st.size, k, v, ttl, now, redisDown)

GetFrom(st, k) == get(isServer, st.conn, st.store, st.cache, st.size, k, now, redisDown)

DelFrom(st, k) == del(isServer, st.conn, st.store, st.cache, st.size, k, redisDown)

ClearFrom(st) == clear(isServer, st.conn, st.store, st.cache, st.size, redisDown)

StatsFrom(st) == getStats(isServer, st.conn, st.store, st.cache, st.size, redisDown)

\* the clock has passed the expiry instant e
ExpiryPassed(e, t) == e.kind = "num" /\ t > e.ms

\* expiry a is no later than expiry b
NoLater(a, b) == b.kind = "inf" \/ (a.kind = "num" /\ b.kind = "num" /\ a.ms <= b.ms)

Returned(l, l2) == l2 # l /\ l2.op # "idle"

\* C2: an entry written with ttl <= 0 never expires: get of the key right after the set,
\* no Redis command having failed in either call, returns the value, whichever tier
\* holds the entry
C2_NoExpiry ==
    [][(/\ last.op = "set" /\ last.ttl <= 0 /\ ~last.err
        /\ Returned(last, last') /\ last'.op = "get" /\ last'.key = last.key /\ ~last'.err)
       => last'.ret = last.val]_vars

\* C3: with every Redis call failing, each set, get and delete returns what the same
\* call returns in the local-only configuration and leaves the local store and its
\* size total as that configuration has them
C3_FallbackTransparency ==
    /\ memoryCache = refCache
    /\ memoryCacheSize = refSize
    /\ last.ret = refRet

\* C3 witness: a get on the server answered from the local store with a value, after
\* the Redis tier has been marked failed
C3_Witness ==
    /\ redisConnectionFailed
    /\ last.op = "get" /\ last.ret \in Values /\ last.tier = "memory"

\* C4: no call throws, whatever the Redis commands do: get returns a value or null,
\* set, delete and clear return normally, getStats returns statistics
C4_NeverThrows ==
    /\ \A k \in Keys, v \in Values, ttl \in TTLs :
         \A o \in SetFrom(Here, k, v, ttl) : ~o.threw /\ o.ret = Void
    /\ \A k \in Keys : \A o \in GetFrom(Here, k) : ~o.threw /\ o.ret \in Values \cup {Null}
    /\ \A k \in Keys : \A o \in DelFrom(Here, k) : ~o.threw /\ o.ret = Void
    /\ \A o \in ClearFrom(Here) : ~o.threw /\ o.ret = Void
    /\ \A o \in StatsFrom(Here) : ~o.threw /\ o.stats.type \in {"redis", "memory"}

\* C4 witness: on the server a connection attempt has failed, a client made earlier or
\* later is held, and a set has fallen back to the local store
C4_Witness ==
    /\ isServer /\ redisConnectionFailed /\ redisClient = "client"
    /\ memoryCache # <<>>

\* C5: after delete(k) has returned, get(k) returns null (no set of k in between)
C5_DeleteRemoves ==
    [][(/\ last.op = "delete"
        /\ Returned(last, last') /\ last'.op = "get" /\ last'.key = last.key)
       => last'.ret = Null]_vars

\* C6: whenever no call is in the middle of its local-store step (between two
\* actions), memoryCacheSize equals the sum of estimateSize over the entries resident
\* in memoryCache
C6_SizeAccounting == memoryCacheSize = MemTotal(memoryCache)

\* C7: the running total memoryCacheSize, which getStats().size reports, is at most
\* MAX_CACHE_SIZE unless the store holds a single entry that alone exceeds MAX_CACHE_SIZE
C7_EvictionCeiling ==
    \/ memoryCacheSize <= MAX_CACHE_SIZE
    \/ Len(memoryCache) = 1 /\ EntrySize(memoryCache[1]) > MAX_CACHE_SIZE

C9_NeverRejected ==
    \A k \in Keys, v \in Values, ttl \in TTLs :
      \A s \in SetFrom(Here, k, v, ttl) :
        s.tier = "memory" =>
          /\ MemHas(s.cache, k) /\ MemEntry(s.cache, k).value = v
          /\ estimateSize(v, ExpiryOf(ttl, now)) > MAX_CACHE_SIZE =>
               /\ s.evicted = MemKeys(memoryCache)
               /\ s.cache = <<[key |-> k, value |-> v, expiry |-> ExpiryOf(ttl, now)]>>
               /\ \A g \in GetFrom(s, k) : g.tier = "memory" => g.ret = v

\* C9 witness: an entry that alone exceeds MAX_CACHE_SIZE has been admitted and is the
\* only entry of the local store
C9_Witness ==
    /\ Len(memoryCache) = 1
    /\ EntrySize(memoryCache[1]) > MAX_CACHE_SIZE

\* C10: a call issued while redisConnectionFailed is true sends no command to Redis
C10_NoCommandsWhileFailed ==
    [][(redisConnectionFailed /\ Returned(last, last')) => last'.cmds = 0]_vars

\* C11: when a Redis command of a call throws while redisConnectionFailed is false, the
\* flag is true once the call has returned, and the call went on to the local store
C11_FailFast ==
    [][(isServer /\ ~redisConnectionFailed /\ Returned(last, last') /\ last'.err)
       => (redisConnectionFailed' /\ last'.tier = "memory")]_vars

\* every call issued in the state st sends at least one command to Redis
AttemptsRemote(st) ==
    /\ \A k \in Keys, v \in Values, ttl \in TTLs :
         \A o \in SetFrom(st, k, v, ttl) : o.cmds > 0
    /\ \A k \in Keys : \A o \in GetFrom(st, k) : o.cmds > 0
    /\ \A k \in Keys : \A o \in DelFrom(st, k) : o.cmds > 0
    /\ \A o \in ClearFrom(st) : o.cmds > 0
    /\ \A o \in StatsFrom(st) : o.cmds > 0

\* the state as a call finds it once redisConnectionFailed has been reset
Reconnected == [Here EXCEPT !.conn.failed = FALSE]

\* C12: a 'connect' event leaves redisConnectionFailed false (and the rest of the
\* connection state as it was), every call issued right after it sends a command to
\* Redis, and nothing but a 'connect' event turns the flag from true to false
C12_ReconnectResets ==
    /\ []((isServer /\ liveClient /\ ~redisDown) => AttemptsRemote(Reconnected))
    /\ [][/\ ConnectEvent => Conn' = Reconnected.conn
          /\ (redisConnectionFailed /\ ~redisConnectionFailed') => ConnectEvent]_vars

\* C12 witness: a ping failure had set the flag and dropped the client (the Redis object
\* made then is still alive), and a 'connect' event has reset the flag
C12_Witness ==
    /\ isServer /\ liveClient /\ redisClient = "null"
    /\ ~redisConnectionFailed

\* C13: getStats right after clear reports zero keys and zero size, whichever backend
\* answers it
C13_ClearThenStats ==
    [][(last.op = "clear" /\ Returned(last, last') /\ last'.op = "getStats")
       => (last'.stats.keys = 0 /\ last'.stats.size = 0)]_vars

\* C18: a set whose value cannot be serialized does not throw and leaves memoryCache,
\* memoryCacheSize and the Redis keyspace as they were
C18_UnserializableNoOp ==
    [][(Returned(last, last') /\ last'.op = "set" /\ last'.val = Cyclic)
       => (~last'.threw /\ last'.evicted = {}
           /\ UNCHANGED <<memoryCache, memoryCacheSize, redisStore>>)]_vars

\* C18 witness: a set of a value that cannot be serialized has returned, on the server
\* with a client held, while both tiers hold entries
C18_Witness ==
    /\ last.op = "set" /\ last.val = Cyclic
    /\ isServer /\ redisClient = "client"
    /\ memoryCache # <<>>
    /\ \E k \in Keys : redisStore[k].present

C15_BestEffortPerKey ==
    (returned.op = "createSnapshot" /\ ~returned.enumFailed /\ returned.readFailed # {})
    => \A k \in Keys \ returned.readFailed :
         redis[k].text # Nil => returned.snapshot[k] = SnapshotValue(redis[k].text)

\* C16: once a latest snapshot exists, every save attempt, failed or not, leaves the
\* latest pointer resolving to the snapshot it resolved to before or to the one just
\* written: latest-snapshot.json locally, the latest-snapshot.json object in S3
C16_LatestPointerAtomic ==
    [][/\ latestLink # 0
            => \/ latestLink' = latestLink
               \/ /\ Len(snapshotFiles') = Len(snapshotFiles) + 1
                  /\ latestLink' = Len(snapshotFiles')
       /\ s3Latest.exists => s3Latest'.exists]_vars

\* C17: a run of the scheduled job in which nothing fails has written its snapshot to
\* exactly one of the local file system and S3
C17_OneDestination ==
    (returned.op = "job" /\ ~returned.failed) => (returned.local # returned.s3)

\* C19: no failure of createSnapshot, of a file or link operation, of an S3 put or of the
\* load at start-up reaches the caller or the scheduler as an exception; once the load
\* has failed and initialize() has returned, isInitialized is true and every later call
\* runs to its return without loading again
C19_FailuresContained ==
    /\ [](/\ ~returned.threw
          /\ (loadFailed /\ pc \in {"resume", "ready"}) => isInitialized)
    /\ [][(loadFailed /\ pc = "ready") => pc' = "ready"]_vars

C19_Witness ==
    /\ loadFailed /\ isInitialized /\ pc = "ready"
    /\ returned.op = "job" /\ returned.failed /\ ~returned.threw

\* C20: when the first get or set of the process enters initialize() and a latest
\* snapshot with at least one key exists, initialize() eventually completes:
\* isInitialized is true and the call that entered it has returned
C20_RestoreTerminates ==
    (/\ pc = "initialize" /\ depth = 0
     /\ LatestSource.exists
     /\ \E k \in Keys : LatestSource.data[k] # Absent)
    ~> (pc = "ready" /\ isInitialized)

\* C21: the latest snapshot is replayed into Redis at most once per process: when a
\* restore loop has replayed it, no other restore loop is left waiting to replay it again
C21_ReplayedOnce ==
    [][(pc = "resume" /\ depth > 0 /\ redis' = Replay(redis, ParseFile(LatestSource.data), {}))
       => depth' = 0]_vars

\* C22: a set writes to exactly one tier: a set that Redis took leaves memoryCache and
\* memoryCacheSize as they were, and no set changes both the Redis keyspace and the
\* local store; a get answered by the local store is one Redis gave no value to
C22_OneTier ==
    [][/\ (Returned(last, last') /\ last'.op = "set")
            => /\ last'.tier = "redis" => UNCHANGED <<memoryCache, memoryCacheSize>>
               /\ ~(redisStore' # redisStore /\ memoryCache' # memoryCache)
       /\ (Returned(last, last') /\ last'.op = "get" /\ last'.tier = "redis")
            => UNCHANGED <<memoryCache, memoryCacheSize>>]_vars

\* C23: getRedisCache never returns the value of an envelope whose expiry is earlier
\* than the clock, whether or not EXPIRE was applied to the key, and when its commands
\* resolve it has deleted the key from Redis
C23_LogicalExpiry ==
    \A k \in Keys :
      (redisStore[k].present /\ ExpiryPassed(redisStore[k].expiry, now))
      => \A g \in getRedisCache(Conn, redisStore, k, now, redisDown) :
           /\ g.ret = Null
           /\ (g.conn.client # "null" /\ ~g.err) => ~g.store[k].present

\* C23 witness: Redis holds an envelope whose expiry has passed and whose EXPIRE was
\* never applied, and a client is there to read it
C23_Witness ==
    /\ isServer /\ redisClient = "client" /\ ~redisDown
    /\ \E k \in Keys :
         /\ redisStore[k].present /\ ~redisStore[k].ttl
         /\ ExpiryPassed(redisStore[k].expiry, now)

\* C24: a get answered by the local store returns the entry's value only while
\* expiry > now; at the instant now = expiry, and later, it returns null and removes
\* the entry
C24_ExpiryBoundary ==
    [][(/\ Returned(last, last') /\ last'.op = "get" /\ last'.tier = "memory"
        /\ MemHas(memoryCache, last'.key))
       => LET e == MemEntry(memoryCache, last'.key)
          IN IF e.expiry.kind = "inf" \/ (e.expiry.kind = "num" /\ e.expiry.ms > now)
             THEN last'.ret = e.value
             ELSE last'.ret = Null /\ ~MemHas(memoryCache', last'.key)]_vars

\* C26: every key a restore loop writes back from the latest snapshot is set with the
\* default ttl: it expires CACHE_TTL seconds after the restore, the snapshot holding
\* nothing of the ttl the key was written with
C26_RestoredWithDefaultTTL ==
    [][(pc = "resume" /\ depth > 0)
       => \A k \in Keys :
            LatestSource.data[k] # Absent
            => \/ redis'[k] = redis[k]
               \/ redis'[k] = [text |-> Stringify(ParseFile(LatestSource.data)[k]),
                               ex |-> CACHE_TTL]]_vars

\* C26 witness: a get has started the process, the load has replayed the snapshot, and a
\* key of the snapshot that no call has set is in Redis with CACHE_TTL
C26_Witness ==
    /\ isInitialized /\ pc = "ready" /\ returned.op = "get"
    /\ \E k \in Keys :
         /\ LatestSource.exists /\ LatestSource.data[k] # Absent
         /\ redis[k].text # Nil /\ redis[k].ex = CACHE_TTL

\* C29: while Redis holds keys, no save replaces a latest snapshot that has entries with
\* an empty one: when createSnapshot fails, the latest snapshot and the pointer to it
\* stay as they were, locally and in S3
C29_NoEmptyOverwrite ==
    [][(\E k \in Keys : redis[k].text # Nil)
       => /\ (latestLink # 0 /\ snapshotFiles[latestLink] # NoSnapshot /\ latestLink' # 0)
               => snapshotFiles'[latestLink'] # NoSnapshot
          /\ (s3Latest.exists /\ s3Latest.data # NoSnapshot)
               => s3Latest'.data # NoSnapshot]_vars

\* C28: once set(k, v2) has returned, a get(k) that returns a value returns v2, never the
\* value of an earlier set(k, v1), whatever the Redis tier did between and during the
\* calls
C28_NoStaleRead ==
    [][(/\ last.op = "set"
        /\ Returned(last, last') /\ last'.op = "get" /\ last'.key = last.key
        /\ last'.ret # Null)
       => last'.ret = last.val]_vars


\* C25: the local-store step of an operation is atomic: while one call is between the
\* statements of its local step (set 78-82, get 113-127), no other call takes a step,
\* at most one call is inside such a step, and the local store changes only by the
\* call that is inside it
C25_LocalStepAtomic ==
    [][\A p \in Procs :
         calls[p].pc \in MidLocal
         => /\ \A q \in Procs \ {p} : calls'[q] = calls[q] /\ calls[q].pc \notin MidLocal
            /\ (<<memoryCache, memoryCacheSize>>' # <<memoryCache, memoryCacheSize>>)
                 => calls'[p] # calls[p]]_vars

C25_Witness ==
    \E p \in Procs, q \in Procs :
        /\ calls[p].op = "set" /\ calls[p].pc = "local81"
        /\ calls[q].op = "set" /\ calls[q].pc = "EXPIRE"

\* C30: cleaning up an expired envelope on a remote read does not lose a write made
\* meanwhile: when get(k) has read an expired envelope and a set(k, v) has since been
\* stored on the remote tier and returned, the delete that the get issues leaves the
\* envelope of the set in place, so that a get(k) still returns v
C30_CleanupKeepsWrite ==
    [][\A p \in Procs, q \in Procs :
         (/\ calls[p].op = "get" /\ calls[p].pc = "DEL" /\ calls'[p].pc = "local113"
          /\ calls[q].op = "set" /\ calls[q].pc = "done" /\ calls[q].ok
          /\ calls[q].key = calls[p].key
          /\ redisStore[calls[p].key].present
          /\ redisStore[calls[p].key].value = calls[q].val
          /\ redisStore[calls[p].key].expiry = calls[q].expiry
          /\ ~JsLess(calls[q].expiry, now))
         => /\ redisStore'[calls[p].key].present
            /\ redisStore'[calls[p].key].value = calls[q].val]_vars

\* C27: connection attempts are bounded: the delay before attempt n is min(50 * n, 2000)
\* ms and never above 2000 ms; while the ping of the first use waits, at most
\* maxRetriesPerRequest retries have been made and the time spent is bounded; and when
\* the attempts run out the ping rejects with redisConnectionFailed set, redisClient
\* null and the call that triggered the connection continuing in the local store,
\* where its value ends up without Redis having been written
C27_AttemptsBounded ==
    /\ [](/\ ioredis.retryDelay <= 2000
          /\ ioredis.status = "wait"
               => ioredis.retryDelay = (IF 50 * ioredis.retryAttempts < 2000
                                        THEN 50 * ioredis.retryAttempts ELSE 2000)
          /\ ioredis.ping = "pending"
               => /\ ioredis.retryAttempts <= maxRetriesPerRequest
                  /\ ioredis.elapsed <= (maxRetriesPerRequest + 1) * connectTimeout
                                          + 50 + 100 + 150
          /\ ioredis.ping = "rejected"
               => /\ redisStore = [k \in Keys |-> NoEntry]
                  /\ \A p \in Procs :
                       (calls[p].op = "set" /\ calls[p].pc = "done")
                       => ~calls[p].ok /\ MemHas(memoryCache, calls[p].key))
    /\ [][(ioredis.ping = "pending" /\ ioredis'.ping = "rejected")
          => /\ redisConnectionFailed' /\ redisClient' = "null" /\ ~isRedisConnecting'
             /\ ioredis'.retryAttempts = maxRetriesPerRequest + 1
             /\ \A p \in Procs : calls[p].pc = "ping" => calls'[p].pc = "local78"]_vars

C27_Witness ==
    /\ redisDown
    /\ ioredis.ping = "rejected" /\ ioredis.status = "wait"
    /\ ioredis.retryAttempts = 41 /\ ioredis.retryDelay = 2000
    /\ redisConnectionFailed /\ redisClient = "null"
    /\ \E p \in Procs : calls[p].op = "set" /\ calls[p].pc = "done"
                        /\ MemHas(memoryCache, calls[p].key)


====
